---------------------------- MODULE Spec2Model ----------------------------
(***************************************************************************)
(* A model of the OSINT dashboard core: redirect unwrapping, result-link   *)
(* extraction (search_web), dork orchestration (advanced_google_hacking),  *)
(* the image URL classifier, the image fetcher and the profile lookup.     *)
(*                                                                         *)
(* Text is modelled as a sequence of one-character strings, so that        *)
(* substring tests, splitting and percent-decoding are computed and not    *)
(* assumed.  The text domain is printable ASCII.                           *)
(***************************************************************************)
EXTENDS Integers, Sequences, FiniteSets, TLC

VARIABLES
    pc,        \* position of the call in progress
    call,      \* the arguments of the call in progress (or of the last call)
    ret,       \* what the last call returned (or the exception it raised)
    selected,  \* advanced_google_hacking: the list the loop iterates over
    i,         \* advanced_google_hacking: index of the next element of selected
    results,   \* advanced_google_hacking: the entries appended so far
    fetched,   \* per GET of the run: the key searched and what the network answered
    log,       \* the blocking steps of the run so far: sleeps and GETs, in order;
               \* in a dashboard session, the number of entries the last run replaced
    session_results  \* app.py: st.session_state.session_results

vars == <<pc, call, ret, selected, i, results, fetched, log, session_results>>

-----------------------------------------------------------------------------
(* Bounds of the model.                                                    *)

\* redirect layers put around a target when building input hrefs
MaxWrap == 2
\* query parameters of a hand-built redirect href
MaxParams == 2

-----------------------------------------------------------------------------
(* Text helpers (Python str operations used by the source).                *)

Ascii ==
    <<" ","!","\"","#","$","%","&","'","(",")","*","+",",","-",".","/",
      "0","1","2","3","4","5","6","7","8","9",":",";","<","=",">","?",
      "@","A","B","C","D","E","F","G","H","I","J","K","L","M","N","O",
      "P","Q","R","S","T","U","V","W","X","Y","Z","[","\\","]","^","_",
      "grave","a","b","c","d","e","f","g","h","i","j","k","l","m","n","o",
      "p","q","r","s","t","u","v","w","x","y","z","{","|","}","~">>

\* ("grave" stands for the backquote, which a TLA+ string cannot hold.)
\* A byte outside printable ASCII decodes to a character outside the text
\* domain (U+FFFD for an invalid UTF-8 byte); one placeholder stands for it.
Replacement == "<?>"

Chr(n) == IF n >= 32 /\ n <= 126 THEN Ascii[n - 31] ELSE Replacement

Ord(c) == 31 + (CHOOSE k \in 1..Len(Ascii) : Ascii[k] = c)

HexDigits == <<"0","1","2","3","4","5","6","7","8","9","A","B","C","D","E","F">>
HexLower == <<"0","1","2","3","4","5","6","7","8","9","a","b","c","d","e","f">>

IsHex(c) == \E k \in 1..16 : HexDigits[k] = c \/ HexLower[k] = c

HexVal(c) == (CHOOSE k \in 1..16 : HexDigits[k] = c \/ HexLower[k] = c) - 1

\* sub in s
Contains(s, sub) ==
    \E k \in 0..(Len(s) - Len(sub)) : SubSeq(s, k + 1, k + Len(sub)) = sub

\* s.find(c) + 1: the first position of character c in s, 0 when absent
Find(s, c) ==
    IF \E k \in 1..Len(s) : s[k] = c
    THEN CHOOSE k \in 1..Len(s) : s[k] = c /\ \A j \in 1..(k - 1) : s[j] # c
    ELSE 0

\* s.split(c): the pieces of s between occurrences of character c
RECURSIVE Split(_, _)
Split(s, c) ==
    LET k == Find(s, c)
    IN  IF k = 0 THEN <<s>>
        ELSE <<SubSeq(s, 1, k - 1)>> \o Split(SubSeq(s, k + 1, Len(s)), c)

\* s.replace("+", " ")
PlusToSpace(s) == [k \in 1..Len(s) |-> IF s[k] = "+" THEN " " ELSE s[k]]

\* s.endswith(suffix)
EndsWith(s, suffix) ==
    /\ Len(suffix) <= Len(s)
    /\ SubSeq(s, Len(s) - Len(suffix) + 1, Len(s)) = suffix

\* s.lower(), on ASCII
Lower(s) ==
    [k \in 1..Len(s) |->
        IF \E n \in 65..90 : Chr(n) = s[k] THEN Chr(Ord(s[k]) + 32) ELSE s[k]]

(* urllib.parse.unquote: every %XX with two hex digits becomes the         *)
(* character of that code; a % not followed by two hex digits stays.       *)
\* position k of s starts an escape
IsEscape(s, k) ==
    /\ k >= 1 /\ k + 2 <= Len(s)
    /\ s[k] = "%" /\ IsHex(s[k + 1]) /\ IsHex(s[k + 2])

\* the place of a hex digit consumed by the escape before it
Consumed == "<consumed>"

IsKept(c) == c # Consumed

unquote(s) ==
    SelectSeq([k \in 1..Len(s) |->
                  IF IsEscape(s, k) THEN Chr(16 * HexVal(s[k + 1]) + HexVal(s[k + 2]))
                  ELSE IF IsEscape(s, k - 1) \/ IsEscape(s, k - 2) THEN Consumed
                  ELSE s[k]],
              IsKept)

\* the characters a URL scheme may hold (urllib.parse.scheme_chars)
IsSchemeChar(c) ==
    \/ \E n \in 48..57 : Chr(n) = c
    \/ \E n \in 65..90 : Chr(n) = c
    \/ \E n \in 97..122 : Chr(n) = c
    \/ c \in {"+", "-", "."}

IsAlpha(c) == \E n \in (65..90) \cup (97..122) : Chr(n) = c

\* the first position at or after `from` of a character of cs; Len(s)+1 when none
FirstOf(s, cs, from) ==
    IF \E k \in from..Len(s) : s[k] \in cs
    THEN CHOOSE k \in from..Len(s) :
             s[k] \in cs /\ \A j \in from..(k - 1) : s[j] \notin cs
    ELSE Len(s) + 1

(* urllib.parse.urlparse(href), as far as _extract_ddg_url uses it: the    *)
(* query component, or the ValueError urlsplit raises for a network        *)
(* location with an unmatched square bracket.  The steps of urlsplit, in   *)
(* its order: the scheme is cut off, then the network location after "//", *)
(* then the fragment after "#"; the query is what follows the first "?".   *)
HasScheme(url, colon) ==
    /\ colon > 1
    /\ IsAlpha(url[1])
    /\ \A k \in 1..(colon - 1) : IsSchemeChar(url[k])

AfterScheme(url) ==
    IF HasScheme(url, Find(url, ":"))
    THEN SubSeq(url, Find(url, ":") + 1, Len(url))
    ELSE url

HasNetloc(url) == Len(url) >= 2 /\ url[1] = "/" /\ url[2] = "/"

\* _splitnetloc(url, 2)
Netloc(url) ==
    IF HasNetloc(url) THEN SubSeq(url, 3, FirstOf(url, {"/", "?", "#"}, 3) - 1)
    ELSE <<>>

AfterNetloc(url) ==
    IF HasNetloc(url) THEN SubSeq(url, FirstOf(url, {"/", "?", "#"}, 3), Len(url))
    ELSE url

UnmatchedBracket(netloc) == (Find(netloc, "[") > 0) # (Find(netloc, "]") > 0)

BeforeFragment(url) ==
    IF Find(url, "#") > 0 THEN SubSeq(url, 1, Find(url, "#") - 1) ELSE url

AfterQuestionMark(url) ==
    IF Find(url, "?") > 0 THEN SubSeq(url, Find(url, "?") + 1, Len(url)) ELSE <<>>

urlsplit(url) ==
    IF UnmatchedBracket(Netloc(url))
    THEN [raised |-> "ValueError", query |-> <<>>]
    ELSE [raised |-> "none",
          query |-> AfterQuestionMark(BeforeFragment(AfterNetloc(url)))]

urlparse(href) == urlsplit(AfterScheme(href))

(* urllib.parse.parse_qs(query), as the list of decoded (name, value)      *)
(* pairs in query order: fields are split on "&", a field without "=" or   *)
(* with a blank value is dropped, "+" becomes a space and both name and    *)
(* value are percent-decoded.                                              *)
RECURSIVE QsPairs(_)
QsPairs(fields) ==
    IF fields = <<>> THEN <<>>
    ELSE LET nv == Head(fields)
             eq == Find(nv, "=")
             name == SubSeq(nv, 1, eq - 1)
             value == SubSeq(nv, eq + 1, Len(nv))
         IN  IF nv = <<>> \/ eq = 0 \/ value = <<>>
             THEN QsPairs(Tail(fields))
             ELSE <<[name |-> unquote(PlusToSpace(name)),
                     value |-> unquote(PlusToSpace(value))]>>
                      \o QsPairs(Tail(fields))

parse_qs(query) == IF query = <<>> THEN <<>> ELSE QsPairs(Split(query, "&"))

\* "uddg" in params
HasParam(params, name) == \E k \in 1..Len(params) : params[k].name = name

\* params[name][0]: the value of the first pair called name
FirstParam(params, name) ==
    params[CHOOSE k \in 1..Len(params) :
               params[k].name = name
               /\ \A j \in 1..(k - 1) : params[j].name # name].value

-----------------------------------------------------------------------------
(* OSINTCore._extract_ddg_url                                              *)

Marker == <<"d","u","c","k","d","u","c","k","g","o",".","c","o","m","/","l","/">>
Uddg == <<"u","d","d","g">>

\* what a call returned, or the exception it raised
Returned(v) == [raised |-> "none", value |-> v]
Raised(e) == [raised |-> e, value |-> <<>>]

\* lines 44-46: the parsed parameters decide
UnwrapParams(href, params) ==
    IF HasParam(params, Uddg)
    THEN Returned(unquote(FirstParam(params, Uddg)))
    ELSE Returned(href)

\* lines 42-43: urlparse may raise; parse_qs reads the query
UnwrapParsed(href, parsed) ==
    IF parsed.raised # "none" THEN Raised(parsed.raised)
    ELSE UnwrapParams(href, parse_qs(parsed.query))

\* _extract_ddg_url without its test for the redirect path
ExtractDdgUrlNoMarkerTest(href) == UnwrapParsed(href, urlparse(href))

_extract_ddg_url(href) ==
    IF ~Contains(href, Marker) THEN Returned(href)
    ELSE UnwrapParsed(href, urlparse(href))

-----------------------------------------------------------------------------
(* Input hrefs: what a result page can hold.  A redirect link is built the *)
(* way the search engine builds it: the target, percent-encoded, as the    *)
(* uddg parameter of the redirect path.                                    *)

HexOf(n) == <<"%", HexDigits[(n \div 16) + 1], HexDigits[(n % 16) + 1]>>

IsUnreserved(c) == (\E n \in 48..57 : Chr(n) = c) \/ IsAlpha(c) \/ c \in {"_", ".", "-", "~"}

\* urllib.parse.quote(s, safe=""): the inverse of one unquote
RECURSIVE quote(_)
quote(s) ==
    IF s = <<>> THEN <<>>
    ELSE IF Len(s) = 1
         THEN (IF IsUnreserved(s[1]) THEN s ELSE HexOf(Ord(s[1])))
         ELSE quote(SubSeq(s, 1, Len(s) \div 2))
                  \o quote(SubSeq(s, (Len(s) \div 2) + 1, Len(s)))

RedirectPrefix == <<"/","/">> \o Marker \o <<"?">> \o Uddg \o <<"=">>

Wrap(target) == RedirectPrefix \o quote(target)

RECURSIVE WrapTimes(_, _)
WrapTimes(target, n) == IF n = 0 THEN target ELSE Wrap(WrapTimes(target, n - 1))

\* link targets: a plain URL, one holding an escape, one holding a plus sign,
\* one with a uddg parameter of its own, and a malformed redirect link
Targets ==
    { <<"x",".","i","o","/","a">>,
      <<"x",".","i","o","/","a","%","2","0","b">>,
      <<"x",".","i","o","/","a","+","b">>,
      <<"x",".","i","o","/","?","u","d","d","g","=","b">>,
      <<"/","/","[">> \o Marker }

\* query fields of a hand-built redirect href
ParamFields ==
    { <<"u","d","d","g","=">>,
      <<"u","d","d","g">>,
      <<"q","=","1">>,
      <<"u","d","d","g","=","c","%","2","F","d">>,
      <<"%","7","5","d","d","g","=","e">> }

RECURSIVE Join(_, _)
Join(pieces, c) ==
    IF pieces = <<>> THEN <<>>
    ELSE IF Len(pieces) = 1 THEN pieces[1]
    ELSE pieces[1] \o <<c>> \o Join(Tail(pieces), c)

SeqsUpTo(S, n) == UNION {[1..k -> S] : k \in 0..n}

BuiltHrefs ==
    { <<"/","/">> \o Marker \o <<"?">> \o Join(fs, "&") : fs \in SeqsUpTo(ParamFields, MaxParams) }

\* the redirect path with its parameter in the fragment, and the marker in a
\* link that is no redirect
OddHrefs ==
    { <<"/","/">> \o Marker \o <<"#","?","u","d","d","g","=","f">>,
      <<"x",".","i","o","/","?","g","=">> \o Marker }

HrefInputs ==
    {WrapTimes(t, n) : t \in Targets, n \in 0..MaxWrap} \cup BuiltHrefs \cup OddHrefs

-----------------------------------------------------------------------------
(* Specification of _extract_ddg_url alone: it is applied to an input      *)
(* href, and then once more to what it returned.                           *)

Idle == <<>>

InitUnwrap ==
    /\ pc = "call"
    /\ call \in {[fn |-> "_extract_ddg_url", href |-> h] : h \in HrefInputs}
    /\ ret = <<>>
    /\ session_results = Idle
    /\ selected = Idle /\ i = 0 /\ results = Idle /\ fetched = Idle /\ log = Idle

ExtractDdgUrl ==
    /\ pc = "call"
    /\ ret' = <<_extract_ddg_url(call.href)>>
    /\ pc' = "returned"
    /\ UNCHANGED <<call, selected, i, results, fetched, log, session_results>>

ExtractDdgUrlAgain ==
    /\ pc = "returned"
    /\ ret[1].raised = "none"
    /\ ret' = Append(ret, _extract_ddg_url(ret[1].value))
    /\ pc' = "again"
    /\ UNCHANGED <<call, selected, i, results, fetched, log, session_results>>

NextUnwrap == ExtractDdgUrl \/ ExtractDdgUrlAgain

SpecUnwrap == InitUnwrap /\ [][NextUnwrap]_vars

-----------------------------------------------------------------------------
(* OSINTCore.search_web                                                    *)

\* What the network answers to one GET: an exception of requests (a
\* RequestException), or a response with its status and, in document order,
\* the "a.result__a" anchors of its body.  An anchor may lack the href
\* attribute (link.get("href") is None).
NoHref == [has_href |-> FALSE, href |-> <<>>]
Anchor(h) == [has_href |-> TRUE, href |-> h]

Failure(e) == [exc |-> e, status |-> 0, anchors |-> <<>>]
Response(s, doc) == [exc |-> "none", status |-> s, anchors |-> doc]

\* response.raise_for_status(): HTTPError for a 4xx or 5xx status only
RaisesForStatus(status) == status >= 400 /\ status < 600

\* the loop of search_web over the selected anchors, `collected` being the
\* results so far; AppendLink is the loop body from results.append on
RECURSIVE CollectLinks(_, _, _)
RECURSIVE AppendLink(_, _, _, _)
AppendLink(rest, collected, max_results, url) ==
    IF url.raised # "none" THEN Raised(url.raised)
    ELSE IF Len(collected) + 1 >= max_results
         THEN Returned(Append(collected, url.value))
         ELSE CollectLinks(rest, Append(collected, url.value), max_results)

CollectLinks(anchors, collected, max_results) ==
    IF anchors = <<>> THEN Returned(collected)
    ELSE IF ~Head(anchors).has_href \/ Head(anchors).href = <<>>
         THEN CollectLinks(Tail(anchors), collected, max_results)
         ELSE AppendLink(Tail(anchors), collected, max_results,
                         _extract_ddg_url(Head(anchors).href))

\* the hrefs of the anchors that have one, in document order
RECURSIVE Hrefs(_)
Hrefs(anchors) ==
    IF anchors = <<>> THEN <<>>
    ELSE IF ~Head(anchors).has_href \/ Head(anchors).href = <<>>
         THEN Hrefs(Tail(anchors))
         ELSE <<Head(anchors).href>> \o Hrefs(Tail(anchors))

\* search_web appending each href as it stands in the page
SearchWebRawHrefs(outcome, max_results) ==
    IF outcome.exc # "none" \/ RaisesForStatus(outcome.status)
    THEN Returned(<<>>)
    ELSE Returned(SubSeq(Hrefs(outcome.anchors), 1, max_results))

\* search_web after its sleep: the GET answered `outcome`
search_web(outcome, max_results) ==
    IF outcome.exc # "none" \/ RaisesForStatus(outcome.status)
    THEN Returned(<<>>)
    ELSE CollectLinks(outcome.anchors, <<>>, max_results)

-----------------------------------------------------------------------------
(* OSINTCore.advanced_google_hacking                                       *)

\* the slot of a template, and str.format(target=...) on a template given as
\* its pieces around the slot
Slot == "{target}"
Format(template, target) ==
    [k \in 1..Len(template) |-> IF template[k] = Slot THEN target ELSE template[k]]

\* the dict `dorks`, in declaration order
Catalog ==
    << [type |-> "Fotos e Imagens",
        template |-> <<"\"", Slot, "\" (filetype:jpg OR filetype:png OR filetype:jpeg)">>],
       [type |-> "Perfis em Redes Sociais",
        template |-> <<"\"", Slot, "\" site:facebook.com OR site:twitter.com OR site:linkedin.com OR site:instagram.com">>],
       [type |-> "Fotos em Redes Sociais",
        template |-> <<"\"", Slot, "\" (foto OR photo OR profile) site:facebook.com OR site:instagram.com">>],
       [type |-> "Mencoes Publicas",
        template |-> <<"\"", Slot, "\" intext:\"tagged\" OR intext:\"mentioned\"">>] >>

\* list(dorks.keys())
CatalogKeys == [k \in 1..Len(Catalog) |-> Catalog[k].type]

InCatalog(type) == \E k \in 1..Len(Catalog) : Catalog[k].type = type

\* dorks.get with a default template for an unknown type
TemplateWithDefault(type) ==
    IF InCatalog(type)
    THEN Catalog[CHOOSE k \in 1..Len(Catalog) : Catalog[k].type = type].template
    ELSE <<"\"", Slot, "\"">>

\* dorks.get(dork_type): the template, or None (the empty template here)
Template(type) ==
    IF InCatalog(type)
    THEN Catalog[CHOOSE k \in 1..Len(Catalog) : Catalog[k].type = type].template
    ELSE <<>>

\* the dork_types argument: None, or a list
NoneTypes == [is_none |-> TRUE, list |-> <<>>]
Types(list) == [is_none |-> FALSE, list |-> list]

\* the list as given, without the fallback to the catalog
SelectedAsGiven(dork_types) == dork_types.list

\* dork_types or list(dorks.keys())
Selected(dork_types) ==
    IF dork_types.is_none \/ dork_types.list = <<>> THEN CatalogKeys
    ELSE dork_types.list

NoReturn == [raised |-> "pending", value |-> <<>>]

\* advanced_google_hacking(target, dork_types, max_results) is entered
Call(target, dork_types, max_results) ==
    /\ pc \in {"idle", "done"}
    /\ call' = [fn |-> "advanced_google_hacking", target |-> target,
                dork_types |-> dork_types, max_results |-> max_results]
    /\ selected' = Selected(dork_types)
    /\ i' = 1
    /\ results' = <<>>
    /\ fetched' = <<>>
    /\ log' = <<>>
    /\ ret' = NoReturn
    /\ pc' = "loop"
    /\ UNCHANGED session_results

\* one turn of the for loop up to the call of search_web: an unknown type is
\* skipped, a known one gets its query
LoopSkip ==
    /\ pc = "loop"
    /\ i <= Len(selected)
    /\ Template(selected[i]) = <<>>
    /\ i' = i + 1
    /\ UNCHANGED <<pc, call, ret, selected, results, fetched, log, session_results>>

Query == Format(Template(selected[i]), call.target)

LoopSearch ==
    /\ pc = "loop"
    /\ i <= Len(selected)
    /\ Template(selected[i]) # <<>>
    /\ pc' = "sleep"
    /\ UNCHANGED <<call, ret, selected, i, results, fetched, log, session_results>>

\* search_web without its delay: the GET follows at once
SleepRandomLeftOut ==
    /\ pc = "sleep"
    /\ pc' = "get"
    /\ UNCHANGED <<call, ret, selected, i, results, fetched, log, session_results>>

\* search_web: self._sleep_random()
SleepRandom ==
    /\ pc = "sleep"
    /\ log' = Append(log, [op |-> "sleep", query |-> Query])
    /\ pc' = "get"
    /\ UNCHANGED <<call, ret, selected, i, results, fetched, session_results>>

\* lines 89-90 of the loop: search_web returned `urls` and the entry is
\* appended, or search_web raised and the exception leaves the function
AppendEntry(urls) ==
    IF urls.raised = "none"
    THEN /\ results' = Append(results,
                 [type |-> selected[i], query |-> Query, urls |-> urls.value])
         /\ i' = i + 1
         /\ pc' = "loop"
         /\ UNCHANGED ret
    ELSE /\ ret' = Raised(urls.raised)
         /\ pc' = "done"
         /\ UNCHANGED <<results, i>>

\* search_web from requests.get on, answered `outcome`, and the rest of the
\* loop body
RequestsGet(outcome) ==
    /\ pc = "get"
    /\ log' = Append(log, [op |-> "GET", query |-> Query])
    /\ fetched' = Append(fetched, [type |-> selected[i], outcome |-> outcome])
    /\ AppendEntry(search_web(outcome, call.max_results))
    /\ UNCHANGED <<call, selected, session_results>>

\* return {"target": target, "dorks": results}
Return ==
    /\ pc = "loop"
    /\ i > Len(selected)
    /\ ret' = Returned([target |-> call.target, dorks |-> results])
    /\ pc' = "done"
    /\ UNCHANGED <<call, selected, i, results, fetched, log, session_results>>

-----------------------------------------------------------------------------
(* Specification of the orchestration: calls of advanced_google_hacking,   *)
(* each GET answered by the network as it likes.                           *)

\* requested types per call
MaxSelected == 2

\* the default of max_results
DefaultMaxResults == 20

PlainJpg == <<"x",".","i","o","/","a",".","j","p","g">>
PlainPage == <<"x",".","i","o","/","a">>

\* result pages: direct and redirect links with an anchor without href; a
\* redirect link around a redirect link; a malformed redirect link
ResultPage == <<Anchor(PlainJpg), NoHref, Anchor(Wrap(PlainPage))>>
NestedPage == <<Anchor(WrapTimes(PlainPage, 2))>>
MalformedPage == <<Anchor(<<"/","/","[">> \o Marker)>>

Outcomes ==
    { Failure("Timeout"), Failure("ConnectionError"),
      Response(503, ResultPage), Response(300, ResultPage),
      Response(200, ResultPage), Response(200, NestedPage),
      Response(200, MalformedPage) }

RequestedTypes == {CatalogKeys[k] : k \in 1..Len(Catalog)} \cup {"NonExistent"}

DorkTypesInputs == {NoneTypes} \cup {Types(l) : l \in SeqsUpTo(RequestedTypes, MaxSelected)}

Init ==
    /\ pc = "idle"
    /\ call = [fn |-> "none"]
    /\ ret = NoReturn
    /\ session_results = Idle
    /\ selected = <<>> /\ i = 0 /\ results = <<>> /\ fetched = <<>> /\ log = <<>>

Next ==
    \/ \E target \in {"johndoe"}, dork_types \in DorkTypesInputs,
          max_results \in {1, DefaultMaxResults} :
           Call(target, dork_types, max_results)
    \/ LoopSkip
    \/ LoopSearch
    \/ SleepRandom
    \/ \E outcome \in Outcomes : RequestsGet(outcome)
    \/ Return

Spec == Init /\ [][Next]_vars

-----------------------------------------------------------------------------
(* Specification of search_web alone: one call, with any cap and any       *)
(* answer of the network.                                                  *)

\* anchors of a result page
MaxAnchors == 3
\* the caps tried, besides the default: 0..MaxCap
MaxCap == 2

AnchorInputs ==
    { NoHref, Anchor(<<>>), Anchor(PlainJpg), Anchor(Wrap(PlainPage)),
      Anchor(WrapTimes(PlainPage, 2)), Anchor(<<"/","/","[">> \o Marker) }

PageInputs == SeqsUpTo(AnchorInputs, MaxAnchors)

SearchOutcomes ==
    {Failure("Timeout"), Failure("ConnectionError")}
        \cup {Response(s, doc) : s \in {200, 300, 404, 503}, doc \in PageInputs}

MaxResultsInputs == (0..MaxCap) \cup {DefaultMaxResults}

InitSearch ==
    /\ pc = "sleep"
    /\ call \in {[fn |-> "search_web", query |-> "q", max_results |-> m] :
                    m \in MaxResultsInputs}
    /\ ret = NoReturn
    /\ session_results = Idle
    /\ selected = Idle /\ i = 0 /\ results = Idle /\ fetched = <<>> /\ log = <<>>

\* self._sleep_random()
SearchSleep ==
    /\ pc = "sleep"
    /\ log' = Append(log, [op |-> "sleep", query |-> call.query])
    /\ pc' = "get"
    /\ UNCHANGED <<call, ret, selected, i, results, fetched, session_results>>

\* requests.get and all that follows it
SearchGet(outcome) ==
    /\ pc = "get"
    /\ log' = Append(log, [op |-> "GET", query |-> call.query])
    /\ fetched' = <<[type |-> "", outcome |-> outcome]>>
    /\ ret' = search_web(outcome, call.max_results)
    /\ pc' = "returned"
    /\ UNCHANGED <<call, selected, i, results, session_results>>

NextSearch == SearchSleep \/ \E outcome \in SearchOutcomes : SearchGet(outcome)

SpecSearch == InitSearch /\ [][NextSearch]_vars

-----------------------------------------------------------------------------
(* app.py: build_link_table and extract_image_urls_from_dorks              *)

\* dict.get(key, default); the empty dict is the empty function <<>>
Get(dict, key, default) == IF key \in DOMAIN dict THEN dict[key] ELSE default

ImageDorkTypes == {"Fotos e Imagens", "Fotos em Redes Sociais"}

ImageExtensions == { <<".","j","p","g">>, <<".","j","p","e","g">>, <<".","p","n","g">> }

\* url.endswith(image_extensions), on the url as it is written
IsImageUrlCaseSensitive(url) == \E ext \in ImageExtensions : EndsWith(url, ext)

\* url.lower().endswith(image_extensions)
IsImageUrl(url) == \E ext \in ImageExtensions : EndsWith(Lower(url), ext)

\* the loop over the entries of dork_results["dorks"]
RECURSIVE ImageUrlsOfEntries(_)
ImageUrlsOfEntries(entries) ==
    IF entries = <<>> THEN <<>>
    ELSE (IF Get(Head(entries), "type", "") \in ImageDorkTypes
          THEN SelectSeq(Get(Head(entries), "urls", <<>>), IsImageUrl)
          ELSE <<>>)
             \o ImageUrlsOfEntries(Tail(entries))

extract_image_urls_from_dorks(dork_results) ==
    ImageUrlsOfEntries(Get(dork_results, "dorks", <<>>))

\* the rows of build_link_table: one per URL of each entry, in order
RowsOf(dork_type, urls) ==
    [k \in 1..Len(urls) |->
        [tipo_da_dork |-> dork_type, url_encontrada |-> urls[k], acao |-> urls[k]]]

RECURSIVE RowsOfEntries(_)
RowsOfEntries(entries) ==
    IF entries = <<>> THEN <<>>
    ELSE RowsOf(Get(Head(entries), "type", ""), Get(Head(entries), "urls", <<>>))
             \o RowsOfEntries(Tail(entries))

build_link_table(dork_results) == RowsOfEntries(Get(dork_results, "dorks", <<>>))

-----------------------------------------------------------------------------
(* Specification of extract_image_urls_from_dorks alone, applied to any    *)
(* orchestration result.                                                   *)

\* entries of an orchestration result
MaxEntries == 2

UrlListInputs ==
    { <<>>,
      << <<"a",".","j","p","g">> >>,
      << <<"b",".","J","P","E","G">>, <<"d",".","p","d","f">> >>,
      << <<"d",".","p","d","f">>, <<"c",".","P","n","G">>, <<"a",".","j","p","g">> >>,
      << <<"j","p","g">>, <<"e",".","p","n","g","?","s","=","1">> >> }

EntryInputs ==
    {[type |-> t, query |-> "q", urls |-> us] :
        t \in ImageDorkTypes \cup {"Perfis em Redes Sociais", "Credenciais"},
        us \in UrlListInputs}
        \cup {[type |-> "Fotos e Imagens"], [urls |-> << <<"a",".","j","p","g">> >>]}

DorkResultsInputs ==
    {<<>>} \cup {[target |-> "johndoe", dorks |-> es] : es \in SeqsUpTo(EntryInputs, MaxEntries)}

InitImages ==
    /\ pc = "call"
    /\ call \in {[fn |-> "extract_image_urls_from_dorks", dork_results |-> d] :
                    d \in DorkResultsInputs}
    /\ ret = NoReturn
    /\ session_results = Idle
    /\ selected = Idle /\ i = 0 /\ results = Idle /\ fetched = Idle /\ log = Idle

ExtractImageUrls ==
    /\ pc = "call"
    /\ ret' = Returned(extract_image_urls_from_dorks(call.dork_results))
    /\ pc' = "returned"
    /\ UNCHANGED <<call, selected, i, results, fetched, log, session_results>>

\* the table of the same result, as the page shows it
BuildLinkTable ==
    /\ pc = "returned"
    /\ results' = build_link_table(call.dork_results)
    /\ pc' = "shown"
    /\ UNCHANGED <<call, ret, selected, i, fetched, log, session_results>>

NextImages == ExtractImageUrls \/ BuildLinkTable

SpecImages == InitImages /\ [][NextImages]_vars

-----------------------------------------------------------------------------
(* app.py: fetch_image                                                     *)

\* what the image host answers: an exception, or a status code and a body
FetchFailure(e) == [exc |-> e, status_code |-> 0, content |-> <<>>]
FetchResponse(s, body) == [exc |-> "none", status_code |-> s, content |-> body]

fetch_image(outcome) ==
    IF outcome.exc # "none" THEN [data |-> <<>>, status |-> "error"]
    ELSE IF outcome.status_code = 403 THEN [data |-> <<>>, status |-> "forbidden"]
    ELSE IF RaisesForStatus(outcome.status_code) THEN [data |-> <<>>, status |-> "error"]
    ELSE [data |-> outcome.content, status |-> "ok"]

\* the final status codes an HTTP server can answer with
StatusFirst == 200
StatusLast == 599

\* bodies: none, and the first bytes of a PNG file
BodyInputs == {<<>>, <<137, 80, 78, 71>>}

FetchOutcomes ==
    {FetchFailure("Timeout"), FetchFailure("ConnectionError")}
        \cup {FetchResponse(s, body) : s \in StatusFirst..StatusLast, body \in BodyInputs}

InitFetch ==
    /\ pc = "call"
    /\ call = [fn |-> "fetch_image", url |-> PlainJpg]
    /\ ret = NoReturn
    /\ session_results = Idle
    /\ selected = Idle /\ i = 0 /\ results = Idle /\ fetched = <<>> /\ log = Idle

FetchImage(outcome) ==
    /\ pc = "call"
    /\ fetched' = <<outcome>>
    /\ ret' = Returned(fetch_image(outcome))
    /\ pc' = "returned"
    /\ UNCHANGED <<call, selected, i, results, log, session_results>>

NextFetch == \E outcome \in FetchOutcomes : FetchImage(outcome)

SpecFetch == InitFetch /\ [][NextFetch]_vars

-----------------------------------------------------------------------------
(* OSINTCore.get_profile_metadata                                          *)

\* Python's None, where a text may be missing
None == "<None>"

\* the text of the rate-limit result, cut around the status code
RateLimitText == <<"Rate limited by Instagram (", "429", "). Try again in a few minutes.">>

LookupFailure(e, message) == [exc |-> e, message |-> message]
LookupProfile(profile) == [exc |-> "none", profile |-> profile]

\* every exception handled by the last clause: str(exc) is the error
ProfileMetadataOneHandler(username, lookup) ==
    IF lookup.exc = "none"
    THEN [username |-> lookup.profile.username,
          bio |-> IF lookup.profile.biography \in {None, ""} THEN ""
                  ELSE lookup.profile.biography,
          followers |-> lookup.profile.followers,
          following |-> lookup.profile.followees,
          id |-> lookup.profile.userid,
          profile_pic_url |-> lookup.profile.profile_pic_url,
          is_private |-> lookup.profile.is_private]
    ELSE [username |-> username, error |-> lookup.message]

get_profile_metadata(username, lookup) ==
    IF lookup.exc = "none"
    THEN [username |-> lookup.profile.username,
          bio |-> IF lookup.profile.biography \in {None, ""} THEN ""
                  ELSE lookup.profile.biography,
          followers |-> lookup.profile.followers,
          following |-> lookup.profile.followees,
          id |-> lookup.profile.userid,
          profile_pic_url |-> lookup.profile.profile_pic_url,
          is_private |-> lookup.profile.is_private]
    ELSE IF lookup.exc = "TooManyRequestsException"
         THEN [username |-> username, error |-> RateLimitText]
         ELSE [username |-> username, error |-> lookup.message]

-----------------------------------------------------------------------------
(* Specification of get_profile_metadata alone, with any answer of the     *)
(* profile lookup.                                                         *)

\* follower and followee counts tried: 0..MaxFollowers
MaxFollowers == 2

Usernames == {"testuser", "ratelimited"}

ProfileInputs ==
    [username : Usernames, biography : {None, "", "hello"},
     followers : 0..MaxFollowers, followees : 0..MaxFollowers,
     userid : {12345}, profile_pic_url : {"https://pic.url"},
     is_private : BOOLEAN]

MessageInputs ==
    { <<"429", " Too Many Requests">>, <<"Too many requests">>,
      <<"not found">>, <<>> }

LookupOutcomes ==
    {LookupProfile(p) : p \in ProfileInputs}
        \cup {LookupFailure(e, m) :
                e \in {"TooManyRequestsException", "ProfileNotExistsException",
                       "ConnectionException", "Exception"},
                m \in MessageInputs}

InitProfile ==
    /\ pc = "call"
    /\ call \in {[fn |-> "get_profile_metadata", username |-> u] : u \in Usernames}
    /\ ret = NoReturn
    /\ session_results = Idle
    /\ selected = Idle /\ i = 0 /\ results = Idle /\ fetched = <<>> /\ log = Idle

GetProfileMetadata(lookup) ==
    /\ pc = "call"
    /\ fetched' = <<lookup>>
    /\ ret' = Returned(get_profile_metadata(call.username, lookup))
    /\ pc' = "returned"
    /\ UNCHANGED <<call, selected, i, results, log, session_results>>

NextProfile == \E lookup \in LookupOutcomes : GetProfileMetadata(lookup)

SpecProfile == InitProfile /\ [][NextProfile]_vars

-----------------------------------------------------------------------------
(* OSINTCore.monitor_followers                                             *)

\* the delta taken as previous minus current
MonitorResultDeltaReversed(username, previous_followers, profile) ==
    IF "error" \in DOMAIN profile
    THEN [username |-> username, previous_followers |-> previous_followers,
          status |-> "error", error |-> profile.error]
    ELSE [username |-> username, previous_followers |-> previous_followers,
          current_followers |-> Get(profile, "followers", 0),
          delta |-> previous_followers - Get(profile, "followers", 0),
          status |-> "ok"]

\* lines 136-151, `profile` being what get_profile_metadata returned
MonitorResult(username, previous_followers, profile) ==
    IF "error" \in DOMAIN profile
    THEN [username |-> username, previous_followers |-> previous_followers,
          status |-> "error", error |-> profile.error]
    ELSE [username |-> username, previous_followers |-> previous_followers,
          current_followers |-> Get(profile, "followers", 0),
          delta |-> Get(profile, "followers", 0) - previous_followers,
          status |-> "ok"]

monitor_followers(username, previous_followers, lookup) ==
    MonitorResult(username, previous_followers, get_profile_metadata(username, lookup))

\* previous follower counts tried: 0..MaxPrevious
MaxPrevious == 3

InitMonitor ==
    /\ pc = "call"
    /\ call \in {[fn |-> "monitor_followers", username |-> u, previous_followers |-> p] :
                    u \in Usernames, p \in 0..MaxPrevious}
    /\ ret = NoReturn
    /\ session_results = Idle
    /\ selected = Idle /\ i = 0 /\ results = Idle /\ fetched = <<>> /\ log = Idle

MonitorFollowers(lookup) ==
    /\ pc = "call"
    /\ fetched' = <<lookup>>
    /\ ret' = Returned(monitor_followers(call.username, call.previous_followers, lookup))
    /\ pc' = "returned"
    /\ UNCHANGED <<call, selected, i, results, log, session_results>>

NextMonitor == \E lookup \in LookupOutcomes : MonitorFollowers(lookup)

SpecMonitor == InitMonitor /\ [][NextMonitor]_vars

-----------------------------------------------------------------------------
(* app.py: gps_to_decimal.  A number is kept as an exact fraction          *)
(* [num, den] in lowest terms, den > 0; the rounding of the float          *)
(* operations is not modelled.                                             *)

RECURSIVE Gcd(_, _)
Gcd(a, b) == IF b = 0 THEN a ELSE Gcd(b, a % b)

Abs(n) == IF n < 0 THEN 0 - n ELSE n

\* the fraction n / d in lowest terms
Frac(n, d) == [num |-> n \div Gcd(Abs(n), d), den |-> d \div Gcd(Abs(n), d)]

\* value[k][0] / value[k][1]
Quotient(pair) == Frac(pair[1], pair[2])

FracAdd(x, y) == Frac(x.num * y.den + y.num * x.den, x.den * y.den)

FracDiv(x, n) == Frac(x.num, x.den * n)

FracNeg(x) == [num |-> 0 - x.num, den |-> x.den]

\* a division of to_degrees raises ZeroDivisionError
DividesByZero(value) == \E k \in 1..3 : value[k][2] = 0

\* d + (m / 60.0) + (s / 3600.0)
to_degrees(value) ==
    FracAdd(FracAdd(Quotient(value[1]), FracDiv(Quotient(value[2]), 60)),
            FracDiv(Quotient(value[3]), 3600))

\* the reference never looked at
SignedNever(degrees, gps_info, ref_key, negative_ref) == degrees

\* if gps_info.get(ref_key) == negative_ref: value = -value
Signed(degrees, gps_info, ref_key, negative_ref) ==
    IF Get(gps_info, ref_key, None) = negative_ref THEN FracNeg(degrees) ELSE degrees

gps_to_decimal(gps_info) ==
    IF "GPSLatitude" \notin DOMAIN gps_info THEN Raised("KeyError")
    ELSE IF DividesByZero(gps_info.GPSLatitude) THEN Raised("ZeroDivisionError")
    ELSE IF "GPSLongitude" \notin DOMAIN gps_info THEN Raised("KeyError")
    ELSE IF DividesByZero(gps_info.GPSLongitude) THEN Raised("ZeroDivisionError")
    ELSE Returned(<<Signed(to_degrees(gps_info.GPSLatitude), gps_info,
                           "GPSLatitudeRef", "S"),
                    Signed(to_degrees(gps_info.GPSLongitude), gps_info,
                           "GPSLongitudeRef", "W")>>)

-----------------------------------------------------------------------------
(* Specification of gps_to_decimal alone, on the GPS tags an image can     *)
(* hold: pairs of unsigned integers, a zero denominator included.          *)

LatitudeInputs ==
    {<<d, m, sec>> : d \in {<<40, 1>>, <<0, 1>>, <<81, 2>>, <<1, 0>>},
                     m \in {<<26, 1>>, <<0, 1>>},
                     sec \in {<<46, 1>>, <<461, 10>>, <<0, 0>>}}

LongitudeInputs ==
    { <<<<79, 1>>, <<58, 1>>, <<56, 1>>>>,
      <<<<0, 1>>, <<0, 1>>, <<0, 1>>>>,
      <<<<79, 1>>, <<58, 0>>, <<56, 1>>>> }

LatitudeRefs == {"N", "S", "s"}
LongitudeRefs == {"E", "W"}

GpsInfoInputs ==
    {[GPSLatitude |-> a, GPSLatitudeRef |-> r, GPSLongitude |-> o, GPSLongitudeRef |-> w] :
        a \in LatitudeInputs, r \in LatitudeRefs, o \in LongitudeInputs, w \in LongitudeRefs}
    \cup {[GPSLatitude |-> a, GPSLongitude |-> o, GPSLongitudeRef |-> w] :
        a \in LatitudeInputs, o \in LongitudeInputs, w \in LongitudeRefs}
    \cup {[GPSLatitude |-> a, GPSLatitudeRef |-> r, GPSLongitude |-> o] :
        a \in LatitudeInputs, r \in LatitudeRefs, o \in LongitudeInputs}
    \cup {[GPSLatitudeRef |-> r, GPSLongitude |-> o, GPSLongitudeRef |-> w] :
        r \in LatitudeRefs, o \in LongitudeInputs, w \in LongitudeRefs}
    \cup {[GPSLatitude |-> a, GPSLatitudeRef |-> r, GPSLongitudeRef |-> w] :
        a \in LatitudeInputs, r \in LatitudeRefs, w \in LongitudeRefs}

InitGps ==
    /\ pc = "call"
    /\ call \in {[fn |-> "gps_to_decimal", gps_info |-> g] : g \in GpsInfoInputs}
    /\ ret = NoReturn
    /\ session_results = Idle
    /\ selected = Idle /\ i = 0 /\ results = Idle /\ fetched = Idle /\ log = Idle

GpsToDecimal ==
    /\ pc = "call"
    /\ ret' = gps_to_decimal(call.gps_info)
    /\ pc' = "returned"
    /\ UNCHANGED <<call, selected, i, results, fetched, log, session_results>>

NextGps == GpsToDecimal

SpecGps == InitGps /\ [][NextGps]_vars

-----------------------------------------------------------------------------
(* A whole run of advanced_google_hacking as one step: `outcomes` holds    *)
(* what the network answers to the GET of each valid type, in order.       *)

RECURSIVE RunLoop(_, _, _, _, _)
RECURSIVE RunEntry(_, _, _, _, _, _, _)
\* lines 89-90 for one type, and the rest of the loop
RunEntry(target, rest, outcomes, max_results, entries, dork_type, urls) ==
    IF urls.raised # "none" THEN Raised(urls.raised)
    ELSE RunLoop(target, rest, Tail(outcomes), max_results,
                 Append(entries, [type |-> dork_type,
                                  query |-> Format(Template(dork_type), target),
                                  urls |-> urls.value]))

RunLoop(target, types, outcomes, max_results, entries) ==
    IF types = <<>> THEN Returned([target |-> target, dorks |-> entries])
    ELSE IF Template(Head(types)) = <<>>
         THEN RunLoop(target, Tail(types), outcomes, max_results, entries)
         ELSE RunEntry(target, Tail(types), outcomes, max_results, entries,
                       Head(types), search_web(Head(outcomes), max_results))

advanced_google_hacking(target, dork_types, max_results, outcomes) ==
    RunLoop(target, Selected(dork_types), outcomes, max_results, <<>>)

-----------------------------------------------------------------------------
(* OSINTCore.private_sniffer                                               *)

UsernameSlot == "{username}"

SnifferTemplate ==
    <<"site:instagram.com \"", UsernameSlot, "\" intext:\"collab\" OR intext:\"tagged\"">>

\* the default of max_results of private_sniffer
SnifferMaxResults == 20

SnifferQuery(username) ==
    [k \in 1..Len(SnifferTemplate) |->
        IF SnifferTemplate[k] = UsernameSlot THEN username ELSE SnifferTemplate[k]]

\* the last line of private_sniffer, search_web having returned or raised
SnifferResult(username, urls) ==
    IF urls.raised # "none" THEN Raised(urls.raised)
    ELSE Returned([username |-> username, query |-> SnifferQuery(username),
                   urls |-> urls.value])

private_sniffer(username, outcome, max_results) ==
    SnifferResult(username, search_web(outcome, max_results))

-----------------------------------------------------------------------------
(* app.py, main: the session state and the buttons of the page             *)

\* the empty dict
EmptyDict == <<>>

\* st.session_state.session_results as main creates it
InitialSession ==
    [google_dorks |-> EmptyDict, instagram |-> EmptyDict,
     private_sniffer |-> EmptyDict, image_gallery |-> EmptyDict]

\* s[:n]
Slice(s, n) == SubSeq(s, 1, IF n < Len(s) THEN n ELSE Len(s))

\* s.strip(c)
Strip(s, c) ==
    IF \A k \in 1..Len(s) : s[k] = c THEN <<>>
    ELSE SubSeq(s,
                CHOOSE a \in 1..Len(s) : s[a] # c /\ \A j \in 1..(a - 1) : s[j] = c,
                CHOOSE b \in 1..Len(s) : s[b] # c /\ \A j \in (b + 1)..Len(s) : s[j] = c)

\* the try/except around the run: an exception leaves the empty dict
DorkResultsOf(run) == IF run.raised = "none" THEN run.value ELSE EmptyDict

Gallery(target, image_urls, image_count) ==
    IF image_urls # <<>>
    THEN [target |-> target, urls |-> Slice(image_urls, image_count)]
    ELSE EmptyDict

\* the gallery kept from one run to the next when the new run finds no image
GalleryKeptWhenNoImage(session, target, dork_results, image_count) ==
    [session EXCEPT
        !.google_dorks = dork_results,
        !.image_gallery =
            IF extract_image_urls_from_dorks(dork_results) # <<>>
            THEN Gallery(target, extract_image_urls_from_dorks(dork_results), image_count)
            ELSE session.image_gallery]

\* lines 224-232: what "Executar Dorks" stores
StoreDorks(session, target, dork_results, image_count) ==
    [session EXCEPT
        !.google_dorks = dork_results,
        !.image_gallery =
            Gallery(target, extract_image_urls_from_dorks(dork_results), image_count)]

\* the new entries appended to the stored ones
StoreRunAppended(session, dork_results) ==
    IF dork_results = EmptyDict \/ session.google_dorks = EmptyDict THEN dork_results
    ELSE [dork_results EXCEPT !.dorks = session.google_dorks.dorks \o dork_results.dorks]

\* the stored google_dorks after a run
StoreRun(session, dork_results) == dork_results

\* "Executar Dorks" with a target
ExecutarDorks(target, selected_dorks, image_count, outcomes) ==
    /\ pc = "page"
    /\ target # ""
    /\ call' = [fn |-> "Executar Dorks", target |-> target,
                selected_dorks |-> selected_dorks, image_count |-> image_count]
    /\ ret' = advanced_google_hacking(target, Types(selected_dorks),
                                      DefaultMaxResults, outcomes)
    /\ session_results' =
           StoreDorks(session_results, target,
                      StoreRun(session_results, DorkResultsOf(ret')), image_count)
    /\ log' = <<Len(Get(session_results.google_dorks, "dorks", <<>>))>>
    /\ results' = Idle
    /\ UNCHANGED <<pc, selected, i, fetched>>

\* "Executar Dorks" with the target left empty: nothing runs
ExecutarDorksNoTarget ==
    /\ pc = "page"
    /\ results' = Idle
    /\ UNCHANGED <<pc, call, ret, selected, i, fetched, log, session_results>>

\* the profile stored together with a cleared private_sniffer
StoreProfileAndClearSniffer(session, profile_data) ==
    [session EXCEPT !.instagram = profile_data, !.private_sniffer = EmptyDict]

\* line 291
StoreProfile(session, profile_data) == [session EXCEPT !.instagram = profile_data]

\* "Coletar Perfil" with a user name typed
ColetarPerfil(username, lookup) ==
    /\ pc = "page"
    /\ username # <<>>
    /\ session_results' =
           StoreProfile(session_results,
                        get_profile_metadata(Strip(username, "@"), lookup))
    /\ results' = Idle
    /\ UNCHANGED <<pc, call, ret, selected, i, fetched, log>>

\* line 323, private_sniffer having returned; an exception leaves the handler
StoreSniffer(session, sniffer) ==
    IF sniffer.raised = "none" THEN [session EXCEPT !.private_sniffer = sniffer.value]
    ELSE session

\* "Rodar Private Sniffer", shown when a profile without error is stored
RodarPrivateSniffer(outcome) ==
    /\ pc = "page"
    /\ session_results.instagram # EmptyDict
    /\ "error" \notin DOMAIN session_results.instagram
    /\ session_results' =
           StoreSniffer(session_results,
                        private_sniffer(session_results.instagram.username,
                                        outcome, SnifferMaxResults))
    /\ results' = Idle
    /\ UNCHANGED <<pc, call, ret, selected, i, fetched, log>>

\* the rows of the export: lines 339-345
CsvRowsOfUrls(tipo, urls) == [k \in 1..Len(urls) |-> [tipo |-> tipo, url |-> urls[k]]]

RECURSIVE CsvRowsOfDorks(_)
CsvRowsOfDorks(entries) ==
    IF entries = <<>> THEN <<>>
    ELSE CsvRowsOfUrls(Get(Head(entries), "type", None), Get(Head(entries), "urls", <<>>))
             \o CsvRowsOfDorks(Tail(entries))

CsvRows(session) ==
    CsvRowsOfDorks(Get(session.google_dorks, "dorks", <<>>))
        \o CsvRowsOfUrls("instagram_collab", Get(session.private_sniffer, "urls", <<>>))
        \o CsvRowsOfUrls("image_gallery", Get(session.image_gallery, "urls", <<>>))

\* pd.DataFrame(rows): the columns are the keys of the rows, none without rows
DataFrame(rows) ==
    [columns |-> IF rows = <<>> THEN <<>> ELSE <<"tipo", "url">>, rows |-> rows]

\* df.to_csv(index=False): the header line, then one line per row
to_csv(df) ==
    <<df.columns>>
        \o [k \in 1..Len(df.rows) |->
               [c \in 1..Len(df.columns) |-> df.rows[k][df.columns[c]]]]

\* "Exportar CSV"
ExportarCSV ==
    /\ pc = "page"
    /\ results' = to_csv(DataFrame(CsvRows(session_results)))
    /\ UNCHANGED <<pc, call, ret, selected, i, fetched, log, session_results>>

-----------------------------------------------------------------------------
(* Specification of a dashboard session: the buttons pressed in any order, *)
(* the network and the profile lookup answering as they like.              *)

\* types picked in the multiselect
MaxPicked == 1

UpperJpg == <<"x",".","i","o","/","B",".","J","P","G">>

\* a result page with two images and a page
GalleryPage == <<Anchor(PlainJpg), Anchor(UpperJpg), Anchor(PlainPage)>>

\* a search that finds links, and one whose page makes the run raise
DashOutcomes == {Response(200, GalleryPage), Response(200, MalformedPage)}

\* the multiselect: catalog types, each at most once; none picked is the
\* empty list
DashSelections ==
    {l \in SeqsUpTo({CatalogKeys[k] : k \in 1..Len(CatalogKeys)}, MaxPicked) :
        \A a, b \in 1..Len(l) : a # b => l[a] # l[b]}

\* the slider: 3 to 18 in steps of 3
ImageCounts == {3, 6}

TypedUsernames == { <<>>, <<"@","j","d">>, <<"x","y","@">> }

DashLookups ==
    {LookupProfile([username |-> "johndoe", biography |-> None, followers |-> 1,
                    followees |-> 0, userid |-> 12345,
                    profile_pic_url |-> "https://pic.url", is_private |-> p]) :
        p \in BOOLEAN}
        \cup {LookupFailure("TooManyRequestsException", <<"Too many requests">>)}

InitDashboard ==
    /\ pc = "page"
    /\ call = [fn |-> "none"]
    /\ ret = NoReturn
    /\ session_results = InitialSession
    /\ selected = Idle /\ i = 0 /\ results = Idle /\ fetched = Idle /\ log = Idle

NextDashboard ==
    \/ \E target \in {"johndoe"}, selected_dorks \in DashSelections,
          image_count \in ImageCounts :
           \E outcomes \in [1..Len(Selected(Types(selected_dorks))) -> DashOutcomes] :
               ExecutarDorks(target, selected_dorks, image_count, outcomes)
    \/ ExecutarDorksNoTarget
    \/ \E username \in TypedUsernames, lookup \in DashLookups :
           ColetarPerfil(username, lookup)
    \/ \E outcome \in DashOutcomes : RodarPrivateSniffer(outcome)
    \/ ExportarCSV

SpecDashboard == InitDashboard /\ [][NextDashboard]_vars

-----------------------------------------------------------------------------
(* Claims about _extract_ddg_url, under SpecUnwrap.                        *)

Once == ret[1]
Twice == ret[2]

\* C4 as stated: redirect unwrapping is idempotent for every href,
\* unwrap(unwrap(u)) = unwrap(u), also when the decoded uddg value of u
\* holds the redirect path itself.
C4_IdempotentEverywhere == pc = "again" => Twice = Once

\* C4, amended: unwrap(unwrap(u)) = unwrap(u) for every href u whose unwrapped
\* value no longer holds the redirect path "duckduckgo.com/l/" (an already
\* unwrapped URL); a value that is itself a redirect link is unwrapped further.
C4_IdempotentOnUnwrapped ==
    (pc = "again" /\ ~Contains(Once.value, Marker)) => Twice = Once

\* a redirect link was unwrapped to a URL without the redirect path, and the
\* second application has been made
C4_Witness ==
    /\ pc = "again"
    /\ Contains(call.href, Marker)
    /\ Once.value # call.href
    /\ ~Contains(Once.value, Marker)

\* What C5 says the function returns: the first uddg field of the href's
\* query (a field with a name that reads uddg and a value), percent-decoded.
UddgFields(href) ==
    LET fields == Split(urlparse(href).query, "&")
    IN  SelectSeq(fields,
            LAMBDA f : /\ Find(f, "=") > 0
                       /\ unquote(PlusToSpace(SubSeq(f, 1, Find(f, "=") - 1))) = Uddg
                       /\ Find(f, "=") < Len(f))

RawValue(field) == SubSeq(field, Find(field, "=") + 1, Len(field))

ClaimedUnwrap(href) ==
    IF ~Contains(href, Marker) THEN href
    ELSE IF UddgFields(href) # <<>> THEN unquote(RawValue(UddgFields(href)[1]))
    ELSE href

\* C5: _extract_ddg_url returns the href unchanged without the redirect path,
\* the percent-decoded value of the first uddg parameter when both are there,
\* the href unchanged when the parameter is missing, and it never raises.
C5_UnwrapCases ==
    pc \in {"returned", "again"} => Once = Returned(ClaimedUnwrap(call.href))

-----------------------------------------------------------------------------
(* Claims about advanced_google_hacking, under Spec.                       *)

TypesOf(entries) == [k \in 1..Len(entries) |-> entries[k].type]

ReturnedDorks == pc = "done" /\ ret.raised = "none"

RequestedList == call.dork_types.list

DefaultRequested == call.dork_types.is_none \/ RequestedList = <<>>

\* C1: with a non-empty list of requested types, the returned dorks hold one
\* entry per requested type that is a catalog key, in request order, and none
\* for an unknown type; no search is ever issued for an unknown type, and a
\* list of unknown types only gives an empty dorks list.
C1_OneEntryPerValidType ==
    /\ \A k \in 1..Len(fetched) : InCatalog(fetched[k].type)
    /\ (ReturnedDorks /\ ~DefaultRequested) =>
           /\ TypesOf(ret.value.dorks) = SelectSeq(RequestedList, InCatalog)
           /\ TypesOf(fetched) = SelectSeq(RequestedList, InCatalog)

\* a call with an unknown and a known type has returned
C1_Witness ==
    /\ ReturnedDorks /\ ~DefaultRequested
    /\ \E k \in 1..Len(RequestedList) : ~InCatalog(RequestedList[k])
    /\ Len(ret.value.dorks) >= 1

\* C2: with dork_types empty or not given, every catalog entry is searched
\* exactly once and the dorks are in the order the catalog declares them.
C2_AllCatalogInOrder ==
    (ReturnedDorks /\ DefaultRequested) =>
        /\ TypesOf(ret.value.dorks) =
               <<"Fotos e Imagens", "Perfis em Redes Sociais",
                 "Fotos em Redes Sociais", "Mencoes Publicas">>
        /\ TypesOf(fetched) = TypesOf(ret.value.dorks)

\* a call without dork_types has returned its four entries
C2_Witness ==
    ReturnedDorks /\ call.dork_types.is_none /\ Len(ret.value.dorks) = 4

\* a search failed: an exception of the transport, or a status that is not 2xx
FailedSearch(outcome) ==
    outcome.exc # "none" \/ outcome.status < 200 \/ outcome.status > 299

\* C6: a failed search (timeout, connection error, non-2xx status) gives its
\* type an empty urls list and does not end the run: every valid requested
\* type still gets its entry.
C6_FailedSearchGivesEmptyUrls ==
    /\ \A k \in 1..Len(results) :
           FailedSearch(fetched[k].outcome) => results[k].urls = <<>>
    /\ ReturnedDorks => Len(ret.value.dorks) = Len(SelectSeq(selected, InCatalog))

\* The part of C6 about the run: a search answered by an exception of the
\* transport or by a 4xx or 5xx status gives an empty list, and the run goes on.
C6_RunContinues ==
    /\ \A k \in 1..Len(results) :
           (fetched[k].outcome.exc # "none"
                \/ RaisesForStatus(fetched[k].outcome.status))
               => results[k].urls = <<>>
    /\ ReturnedDorks =>
           /\ Len(ret.value.dorks) = Len(SelectSeq(selected, InCatalog))
           /\ Len(fetched) = Len(ret.value.dorks)

\* C10: every URL of a dork result went through redirect unwrapping exactly
\* once: the j-th URL of an entry is unwrap of the j-th anchor with an href of
\* the page fetched for that entry.
C10_UnwrappedExactlyOnce ==
    \A k \in 1..Len(results) :
        /\ Len(results[k].urls) <= Len(Hrefs(fetched[k].outcome.anchors))
        /\ \A j \in 1..Len(results[k].urls) :
               Returned(results[k].urls[j])
                   = _extract_ddg_url(Hrefs(fetched[k].outcome.anchors)[j])

\* an entry holds a URL that differs from its href and that a second
\* unwrapping would change again
C10_Witness ==
    \E k \in 1..Len(results) : \E j \in 1..Len(results[k].urls) :
        /\ results[k].urls[j] # Hrefs(fetched[k].outcome.anchors)[j]
        /\ _extract_ddg_url(results[k].urls[j]) # Returned(results[k].urls[j])

-----------------------------------------------------------------------------
(* Claims about search_web, under SpecSearch.                              *)

SearchReturned == pc = "returned" /\ ret.raised = "none"

Page == fetched[1].outcome.anchors

Min(a, b) == IF a < b THEN a ELSE b

\* C3: search_web returns no more than max_results links, and they are the
\* unwrapped hrefs of the first anchors that have an href, in document order.
C3_AtMostMaxResults ==
    SearchReturned =>
        /\ Len(ret.value) <= call.max_results
        /\ (~FailedSearch(fetched[1].outcome)) =>
               /\ Len(ret.value) = Min(call.max_results, Len(Hrefs(Page)))
               /\ \A j \in 1..Len(ret.value) :
                      Returned(ret.value[j]) = _extract_ddg_url(Hrefs(Page)[j])

\* The same for a cap of at least one link.
C3_AtMostPositiveCap ==
    (SearchReturned /\ call.max_results >= 1) =>
        /\ Len(ret.value) <= call.max_results
        /\ (~RaisesForStatus(fetched[1].outcome.status)
                /\ fetched[1].outcome.exc = "none") =>
               /\ Len(ret.value) = Min(call.max_results, Len(Hrefs(Page)))
               /\ \A j \in 1..Len(ret.value) :
                      Returned(ret.value[j]) = _extract_ddg_url(Hrefs(Page)[j])

-----------------------------------------------------------------------------
(* Claim about extract_image_urls_from_dorks, under SpecImages.            *)

\* the (type, url) pairs of a result, entry by entry and URL by URL
RECURSIVE TypedUrls(_)
TypedUrls(entries) ==
    IF entries = <<>> THEN <<>>
    ELSE LET e == Head(entries)
             t == IF "type" \in DOMAIN e THEN e.type ELSE ""
             us == IF "urls" \in DOMAIN e THEN e.urls ELSE <<>>
         IN  [k \in 1..Len(us) |-> [type |-> t, url |-> us[k]]]
                 \o TypedUrls(Tail(entries))

LowerChar(c) == Lower(<<c>>)[1]

\* the url ends in the extension, whatever the case of its letters
EndsInAnyCase(url, ext) ==
    /\ Len(url) >= Len(ext)
    /\ \A k \in 1..Len(ext) : LowerChar(url[Len(url) - Len(ext) + k]) = ext[k]

IsImagePair(p) ==
    /\ p.type \in {"Fotos e Imagens", "Fotos em Redes Sociais"}
    /\ \/ EndsInAnyCase(p.url, <<".","j","p","g">>)
       \/ EndsInAnyCase(p.url, <<".","j","p","e","g">>)
       \/ EndsInAnyCase(p.url, <<".","p","n","g">>)

ImagePairs ==
    SelectSeq(TypedUrls(IF "dorks" \in DOMAIN call.dork_results
                        THEN call.dork_results.dorks ELSE <<>>),
              IsImagePair)

\* C7: extract_image_urls_from_dorks returns exactly the URLs of the entries
\* of an image-bearing type that end, in any case, in .jpg, .jpeg or .png, in
\* the order of the entries and of the URLs inside each entry.
C7_ExactlyImageUrlsInOrder ==
    (pc \in {"returned", "shown"}) =>
        ret.value = [k \in 1..Len(ImagePairs) |-> ImagePairs[k].url]

\* a result with an upper-case image URL kept, and with a URL dropped for its
\* type or its extension
C7_Witness ==
    /\ pc = "returned"
    /\ \E k \in 1..Len(ret.value) : ~IsImageUrlCaseSensitive(ret.value[k])
    /\ Len(ret.value) < Len(TypedUrls(call.dork_results.dorks))

-----------------------------------------------------------------------------
(* Claim about fetch_image, under SpecFetch.                               *)

Answer == fetched[1]

\* C8: fetch_image never raises and has three outcomes: (no bytes,
\* "forbidden") for status 403, (no bytes, "error") for any other status
\* that is not 2xx and for a failure of the transport, (the body, "ok") for
\* a 2xx status; bytes come with "ok" only.
C8_ThreeOutcomes ==
    pc = "returned" =>
        /\ ret.raised = "none"
        /\ Answer.exc # "none" => ret.value = [data |-> <<>>, status |-> "error"]
        /\ (Answer.exc = "none" /\ Answer.status_code = 403)
               => ret.value = [data |-> <<>>, status |-> "forbidden"]
        /\ (Answer.exc = "none" /\ Answer.status_code \in 200..299)
               => ret.value = [data |-> Answer.content, status |-> "ok"]
        /\ (Answer.exc = "none" /\ Answer.status_code \notin 200..299
                /\ Answer.status_code # 403)
               => ret.value = [data |-> <<>>, status |-> "error"]
        /\ ret.value.data # <<>> => ret.value.status = "ok"

-----------------------------------------------------------------------------
(* Claim about get_profile_metadata, under SpecProfile.                    *)

Lookup == fetched[1]

\* C9: when the lookup raises, get_profile_metadata returns {username, error}
\* with the requested username and raises nothing; for the rate-limit fault
\* the error text holds "429"; a result has the profile fields or an error
\* key, never both.
C9_FaultBecomesErrorResult ==
    pc = "returned" =>
        /\ ret.raised = "none"
        /\ Lookup.exc # "none" =>
               /\ DOMAIN ret.value = {"username", "error"}
               /\ ret.value.username = call.username
        /\ Lookup.exc = "TooManyRequestsException" =>
               \E k \in 1..Len(ret.value.error) : ret.value.error[k] = "429"
        /\ \/ DOMAIN ret.value = {"username", "error"}
           \/ DOMAIN ret.value = {"username", "bio", "followers", "following",
                                  "id", "profile_pic_url", "is_private"}

\* the lookup raised the rate-limit fault with a message that does not name
\* the status code, and the call returned
C9_Witness ==
    /\ pc = "returned"
    /\ Lookup.exc = "TooManyRequestsException"
    /\ \A k \in 1..Len(Lookup.message) : Lookup.message[k] # "429"
    /\ "error" \in DOMAIN ret.value

-----------------------------------------------------------------------------
(* Claim about the order of the requests of a run, under Spec.             *)

ValidSelected == SelectSeq(selected, InCatalog)

\* the delay and the GET of the k-th valid requested type, one after the other
ExpectedLog ==
    [n \in 1..(2 * Len(ValidSelected)) |->
        [op |-> IF n % 2 = 1 THEN "sleep" ELSE "GET",
         query |-> Format(Template(ValidSelected[(n + 1) \div 2]), call.target)]]

GetsSent == Len(SelectSeq(log, LAMBDA e : e.op = "GET"))

\* C11: the requests of a run are sequential and in request order: what has
\* been done so far is, for each valid requested type in turn, one delay and
\* then one GET; a GET is sent only when every earlier search has given its
\* entry; no GET goes without its delay, none is sent twice, and a run that
\* returns has sent as many GETs as there are valid requested types.
C11_SequentialDelayThenGet ==
    pc # "idle" =>
        /\ Len(log) <= Len(ExpectedLog)
        /\ log = SubSeq(ExpectedLog, 1, Len(log))
        /\ pc = "sleep" => Len(log) = 2 * Len(results)
        /\ pc = "get" => Len(log) = 2 * Len(results) + 1
        /\ pc = "loop" => Len(log) = 2 * Len(results)
        /\ GetsSent = Len(fetched)
        /\ ReturnedDorks => GetsSent = Len(ValidSelected)

\* a run with two valid types or more has returned; its first GET failed and
\* its second one found links
C11_Witness ==
    /\ ReturnedDorks
    /\ Len(ValidSelected) >= 2
    /\ fetched[1].outcome.exc # "none"
    /\ results[2].urls # <<>>
    /\ GetsSent = Len(ValidSelected)

-----------------------------------------------------------------------------
(* Claims about the dashboard session, under SpecDashboard.                *)

DorksRan == call.fn = "Executar Dorks"

StoredDorks == session_results.google_dorks

\* the types a run goes through: the ones picked, or the whole catalog
TypesOfLastRun ==
    IF call.selected_dorks = <<>>
    THEN <<"Fotos e Imagens", "Perfis em Redes Sociais",
           "Fotos em Redes Sociais", "Mencoes Publicas">>
    ELSE call.selected_dorks

\* C12: after any sequence of dork runs, the stored google_dorks is the result
\* of the most recent run, or the empty dict when that run raised; its entries
\* are those of that run only, none is carried over from an earlier run.
C12_StoredIsLatestRun ==
    /\ ~DorksRan => StoredDorks = <<>>
    /\ (DorksRan /\ ret.raised # "none") => StoredDorks = <<>>
    /\ (DorksRan /\ ret.raised = "none") =>
           /\ StoredDorks = ret.value
           /\ StoredDorks.target = call.target
           /\ TypesOf(StoredDorks.dorks) = TypesOfLastRun

\* a run that gave one entry has replaced the several entries an earlier run
\* had stored
C12_Witness ==
    /\ DorksRan /\ ret.raised = "none"
    /\ log # Idle /\ log[1] > 1
    /\ Len(StoredDorks.dorks) = 1

-----------------------------------------------------------------------------
(* Claim about the CSV export, under SpecDashboard.                        *)

Exported == results # Idle

ExportedHeader == results[1]

ExportedLines == Tail(results)

\* the (type, url) pairs of the stored dork entries, then the sniffer URLs,
\* then the gallery URLs, each as a line of the export
StoredDorkLines ==
    IF StoredDorks = <<>> THEN <<>>
    ELSE [k \in 1..Len(TypedUrls(StoredDorks.dorks)) |->
             <<TypedUrls(StoredDorks.dorks)[k].type, TypedUrls(StoredDorks.dorks)[k].url>>]

StoredSnifferUrls ==
    IF session_results.private_sniffer = <<>> THEN <<>>
    ELSE session_results.private_sniffer.urls

StoredGalleryUrls ==
    IF session_results.image_gallery = <<>> THEN <<>>
    ELSE session_results.image_gallery.urls

ExpectedLines ==
    StoredDorkLines
        \o [k \in 1..Len(StoredSnifferUrls) |-> <<"instagram_collab", StoredSnifferUrls[k]>>]
        \o [k \in 1..Len(StoredGalleryUrls) |-> <<"image_gallery", StoredGalleryUrls[k]>>]

\* C13: the export holds one row per (type, url) of every dork entry in
\* order, then one per private-sniffer url tagged instagram_collab, then one
\* per gallery url tagged image_gallery; the number of rows is the sum of the
\* three url counts, and the columns are tipo and url.
C13_ExportRowsAndColumns ==
    Exported =>
        /\ ExportedHeader = <<"tipo", "url">>
        /\ ExportedLines = ExpectedLines
        /\ Len(ExportedLines)
               = Len(StoredDorkLines) + Len(StoredSnifferUrls) + Len(StoredGalleryUrls)

\* The part of C13 about the rows, with the columns named only when the
\* export has a row.
C13_RowsFlattened ==
    Exported =>
        /\ ExportedLines = ExpectedLines
        /\ ExportedLines # <<>> => ExportedHeader = <<"tipo", "url">>

-----------------------------------------------------------------------------
(* Claim about monitor_followers, under SpecMonitor.                       *)

\* the lookup of the profile failed: its result has an error key
LookupFailed == Lookup.exc # "none"

\* C14: when the profile lookup result has an error key, monitor_followers
\* returns status "error" with that error text and the previous_followers it
\* was given, and neither current_followers nor delta; otherwise it returns
\* status "ok", current_followers being the follower count of the profile and
\* delta being current_followers minus previous_followers.
C14_ErrorOrDelta ==
    pc = "returned" =>
        /\ ret.raised = "none"
        /\ ret.value.previous_followers = call.previous_followers
        /\ LookupFailed =>
               /\ ret.value.status = "error"
               /\ ret.value.error =
                      (IF Lookup.exc = "TooManyRequestsException"
                       THEN <<"Rate limited by Instagram (", "429",
                              "). Try again in a few minutes.">>
                       ELSE Lookup.message)
               /\ "current_followers" \notin DOMAIN ret.value
               /\ "delta" \notin DOMAIN ret.value
        /\ ~LookupFailed =>
               /\ ret.value.status = "ok"
               /\ ret.value.current_followers = Lookup.profile.followers
               /\ ret.value.delta + call.previous_followers
                      = ret.value.current_followers
               /\ "error" \notin DOMAIN ret.value

\* the lookup failed for a user who had followers before, and the call
\* returned the error
C14_Witness ==
    /\ pc = "returned"
    /\ LookupFailed
    /\ ret.value.status = "error"
    /\ call.previous_followers > 0

-----------------------------------------------------------------------------
(* Claim about gps_to_decimal, under SpecGps.                              *)

\* the three pairs are rationals: no denominator is zero
IsRationalTriple(value) == \A k \in 1..3 : value[k][2] > 0

RECURSIVE CommonDivisor(_, _)
CommonDivisor(a, b) == IF b = 0 THEN a ELSE CommonDivisor(b, a % b)

Magnitude(n) == IF n < 0 THEN 0 - n ELSE n

\* x is the number n / d, d > 0: the same fraction once both are in lowest
\* terms
IsNumber(x, n, d) ==
    /\ x.den > 0
    /\ CommonDivisor(Magnitude(x.num), x.den) = 1
    /\ x.num = n \div CommonDivisor(Magnitude(n), d)
    /\ x.den = d \div CommonDivisor(Magnitude(n), d)

\* the whole of a triple in 3600ths of a degree, over the product of its
\* denominators: (n, d) with degrees + minutes/60 + seconds/3600 = n / d
SecondsNum(v) ==
    3600 * v[1][1] * v[2][2] * v[3][2]
        + 60 * v[2][1] * v[1][2] * v[3][2]
        + v[3][1] * v[1][2] * v[2][2]

SecondsDen(v) == 3600 * v[1][2] * v[2][2] * v[3][2]

GpsGiven ==
    /\ "GPSLatitude" \in DOMAIN call.gps_info
    /\ "GPSLongitude" \in DOMAIN call.gps_info
    /\ IsRationalTriple(call.gps_info.GPSLatitude)
    /\ IsRationalTriple(call.gps_info.GPSLongitude)

RefIs(key, letter) == key \in DOMAIN call.gps_info /\ call.gps_info[key] = letter

\* C15: gps_to_decimal turns a degrees/minutes/seconds triple of rationals
\* into degrees + minutes/60 + seconds/3600, negated for the latitude exactly
\* when its reference is "S" and for the longitude exactly when its reference
\* is "W"; with another reference or none the value is not negative.
C15_DegreesAndSign ==
    (pc = "returned" /\ GpsGiven) =>
        /\ ret.raised = "none"
        /\ IF RefIs("GPSLatitudeRef", "S")
           THEN IsNumber(ret.value[1], 0 - SecondsNum(call.gps_info.GPSLatitude),
                         SecondsDen(call.gps_info.GPSLatitude))
           ELSE /\ IsNumber(ret.value[1], SecondsNum(call.gps_info.GPSLatitude),
                            SecondsDen(call.gps_info.GPSLatitude))
                /\ ret.value[1].num >= 0
        /\ IF RefIs("GPSLongitudeRef", "W")
           THEN IsNumber(ret.value[2], 0 - SecondsNum(call.gps_info.GPSLongitude),
                         SecondsDen(call.gps_info.GPSLongitude))
           ELSE /\ IsNumber(ret.value[2], SecondsNum(call.gps_info.GPSLongitude),
                            SecondsDen(call.gps_info.GPSLongitude))
                /\ ret.value[2].num >= 0

\* a southern latitude given in halves and tenths came back negative,
\* with a longitude that has no reference
C15_Witness ==
    /\ pc = "returned" /\ GpsGiven
    /\ RefIs("GPSLatitudeRef", "S")
    /\ call.gps_info.GPSLatitude = <<<<81, 2>>, <<26, 1>>, <<461, 10>>>>
    /\ ret.value[1].num < 0
    /\ "GPSLongitudeRef" \notin DOMAIN call.gps_info
    /\ ret.value[2].num > 0

-----------------------------------------------------------------------------
(* Claim about the stored gallery, under SpecDashboard.                    *)

StoredGallery == session_results.image_gallery

StoredEntries == IF StoredDorks = <<>> THEN <<>> ELSE StoredDorks.dorks

StoredImagePairs == SelectSeq(TypedUrls(StoredEntries), IsImagePair)

\* C16: in every session state the stored image_gallery is empty, or holds a
\* non-empty list of urls that is a prefix, no longer than the image_count of
\* the run that stored it, of the image URLs of the stored google_dorks; no
\* URL of the gallery is absent from the stored google_dorks.
C16_GalleryIsPrefixOfStoredImages ==
    \/ StoredGallery = <<>>
    \/ /\ StoredGallery.urls # <<>>
       /\ Len(StoredGallery.urls) <= call.image_count
       /\ Len(StoredGallery.urls) <= Len(StoredImagePairs)
       /\ \A k \in 1..Len(StoredGallery.urls) :
              StoredGallery.urls[k] = StoredImagePairs[k].url
       /\ \A k \in 1..Len(StoredGallery.urls) :
              \E e \in 1..Len(StoredEntries) :
                  \E u \in 1..Len(StoredEntries[e].urls) :
                      StoredEntries[e].urls[u] = StoredGallery.urls[k]

\* a run found more images than the image_count chosen, and the gallery
\* holds the first of them
C16_Witness ==
    /\ StoredGallery # <<>>
    /\ Len(StoredGallery.urls) = call.image_count
    /\ Len(StoredImagePairs) > call.image_count

-----------------------------------------------------------------------------
(* Claim about what each button writes, under SpecDashboard.               *)

Kept(key) == session_results'[key] = session_results[key]

ExecutarDorksStep ==
    \/ \E target \in {"johndoe"}, selected_dorks \in DashSelections,
          image_count \in ImageCounts :
           \E outcomes \in [1..Len(Selected(Types(selected_dorks))) -> DashOutcomes] :
               ExecutarDorks(target, selected_dorks, image_count, outcomes)
    \/ ExecutarDorksNoTarget

ColetarPerfilStep ==
    \E username \in TypedUsernames, lookup \in DashLookups :
        ColetarPerfil(username, lookup)

RodarPrivateSnifferStep == \E outcome \in DashOutcomes : RodarPrivateSniffer(outcome)

ButtonsWriteTheirOwnEntries ==
    /\ (Kept("instagram") /\ Kept("private_sniffer")) \/ ~ExecutarDorksStep
    /\ (Kept("google_dorks") /\ Kept("image_gallery") /\ Kept("private_sniffer"))
           \/ ~ColetarPerfilStep
    /\ (Kept("google_dorks") /\ Kept("image_gallery") /\ Kept("instagram"))
           \/ ~RodarPrivateSnifferStep
    /\ session_results' = session_results \/ ~ExportarCSV
    /\ DOMAIN session_results' = DOMAIN session_results

\* C17: each button writes only its own session entries: "Executar Dorks"
\* changes google_dorks and image_gallery only, "Coletar Perfil" instagram
\* only, "Rodar Private Sniffer" private_sniffer only, "Exportar CSV" nothing;
\* so collecting a new profile leaves the stored private_sniffer as it was.
C17_EachButtonWritesItsOwn == [][ButtonsWriteTheirOwnEntries]_vars

\* the sniffer result of an earlier profile is still stored after a later
\* "Coletar Perfil" stored an error, and dork results are stored too
C17_Witness ==
    /\ session_results.private_sniffer # <<>>
    /\ "error" \in DOMAIN session_results.instagram
    /\ session_results.google_dorks # <<>>
    /\ session_results.image_gallery # <<>>

=============================================================================
